---- MODULE Spec2Model ----
(***************************************************************************)
(* examples/ImageClassification/train.py: main() as a state machine.       *)
(*                                                                         *)
(* The script parses its options, globs the dataset shards, concatenates   *)
(* them, wraps them in a torch DataLoader, builds model/optimizer/loss and *)
(* runs the epoch loop.  The library calls (argparse, glob,                *)
(* concatenate_datasets, DataLoader, optimizer) are modelled by their      *)
(* documented behaviour under the arguments main() passes and the defaults *)
(* it leaves alone (shuffle=False, drop_last=False, prefetch_factor=2,     *)
(* in_order=True).                                                         *)
(*                                                                         *)
(* Two specifications:                                                     *)
(*   Spec        main() from parse_args to the last progress line          *)
(*   LoaderSpec  one full pass over the DataLoader main() builds           *)
(***************************************************************************)
EXTENDS Integers, Sequences, FiniteSets, TLC

\* ------------------------------------------------------------------ bounds
MaxBatch == 3
MaxEpochs == 2
MaxWorkers == 2
MaxShards == 2
MaxShardLen == 1
MaxLen == 4
MaxLoss == 1

VARIABLES
    argv,       \* the command line: batch_size, num_epochs, num_workers, ok
    shards,     \* the data root: shards[i] = rows of the i-th file in filename order
    pc,         \* main()'s position
    error,      \* the exception that ended the run, "" while none
    files,      \* glob()'s result: the shard files in enumeration order
    accessed,   \* the data root has been touched (glob / Dataset.from_file)
    trainset,   \* the logical dataset: trainset[k+1] = <<shard, row>> of sample k
    it,         \* the DataLoader iterator of the current pass
    delivered,  \* the batches the for-loop received in the current pass
    epoch,      \* the loop variable of `for epoch in range(num_epochs)`
    batch,      \* the sample indices of the batch being processed
    loss,       \* the local `loss`: bound or not, its value, the epoch that set it
    gradAcc,    \* backward passes accumulated in .grad since the last zero_grad
    opLog,      \* the calls made on the current batch, in order
    stepLog,    \* one entry per optimizer.step()
    printed     \* the progress lines on standard output

vars == <<argv, shards, pc, error, files, accessed, trainset, it, delivered,
          epoch, batch, loss, gradAcc, opLog, stepLog, printed>>

\* ----------------------------------------------------------------- helpers
Min(a, b) == IF a < b THEN a ELSE b

Perms(n) == {f \in [1..n -> 1..n] : \A i, j \in 1..n : f[i] = f[j] => i = j}

NoIter == [open |-> FALSE, sendIdx |-> 0, rcvdIdx |-> 0, inflight |-> {}, ready |-> {}]
Unbound == [bound |-> FALSE, value |-> 0, epoch |-> 0]

\* ------------------------------------------------------- dataset assembler
\* Dataset.from_file(fn) for each fn of the glob result, concatenated in the
\* order of the list: rows of fs[1], then rows of fs[2], ...
RECURSIVE ConcatenateDatasets(_)
ConcatenateDatasets(fs) ==
    IF fs = <<>> THEN <<>>
    ELSE [r \in 1..shards[Head(fs)] |-> <<Head(fs), r>>] \o ConcatenateDatasets(Tail(fs))

\* ------------------------------------------------------------ batch loader
\* shuffle is left off: the sampler yields 0, 1, ..., L-1.
SequentialSampler(L) == [i \in 1..L |-> i - 1]

\* torch's BatchSampler: groups of B indices in sampler order; the short
\* remainder is kept unless drop.
RECURSIVE BatchSampler(_, _, _)
BatchSampler(s, B, drop) ==
    IF Len(s) = 0 THEN <<>>
    ELSE IF Len(s) < B THEN (IF drop THEN <<>> ELSE <<s>>)
    ELSE <<SubSeq(s, 1, B)>> \o BatchSampler(SubSeq(s, B + 1, Len(s)), B, drop)

BatchesDropLast(L, B) == BatchSampler(SequentialSampler(L), B, TRUE)

\* DataLoader(trainset, batch_size=B, ...): drop_last stays False.
Batches(L, B) == BatchSampler(SequentialSampler(L), B, FALSE)

LoaderBatches == Batches(Len(trainset), argv.batch_size)
NumBatches == Len(LoaderBatches)

\* iter(trainloader).  num_workers = 0: batches are fetched in the caller.
\* num_workers = W > 0: 2 * W batch indices (prefetch_factor = 2) are handed
\* to the workers up front.
IterInit ==
    LET W == argv.num_workers
        primed == IF W = 0 THEN 0 ELSE Min(2 * W, NumBatches)
    IN [open |-> TRUE, sendIdx |-> primed, rcvdIdx |-> 0,
        inflight |-> 0..(primed - 1), ready |-> {}]

\* Batch index k goes to worker k % W (round robin); a worker serves its
\* index queue in FIFO order.
CanComplete(k) ==
    /\ k \in it.inflight
    /\ \A j \in it.inflight :
         (j % argv.num_workers = k % argv.num_workers) => j >= k

DeliverableAnyReady(i) ==
    IF argv.num_workers = 0
    THEN (IF i.rcvdIdx < NumBatches THEN {i.rcvdIdx} ELSE {})
    ELSE i.ready

\* next(iterator): the batch indices the call may return.  With workers the
\* iterator returns batch rcvdIdx only, holding later results back.
Deliverable(i) ==
    IF argv.num_workers = 0
    THEN (IF i.rcvdIdx < NumBatches THEN {i.rcvdIdx} ELSE {})
    ELSE {i.rcvdIdx} \cap i.ready

\* the iterator after returning batch k: one more index is handed out.
AfterNext(i, k) ==
    IF argv.num_workers = 0
    THEN [i EXCEPT !.rcvdIdx = i.rcvdIdx + 1]
    ELSE IF i.sendIdx < NumBatches
         THEN [i EXCEPT !.rcvdIdx = i.rcvdIdx + 1, !.ready = i.ready \ {k},
                        !.inflight = i.inflight \cup {i.sendIdx},
                        !.sendIdx = i.sendIdx + 1]
         ELSE [i EXCEPT !.rcvdIdx = i.rcvdIdx + 1, !.ready = i.ready \ {k}]

Exhausted(i) == i.rcvdIdx >= NumBatches

\* ------------------------------------------------------------------- Init
ArgvSet ==
    [batch_size : -1..MaxBatch, num_epochs : 0..MaxEpochs,
     num_workers : 0..MaxWorkers, ok : BOOLEAN]

ShardSets == UNION {[1..n -> 0..MaxShardLen] : n \in 0..MaxShards}

Init ==
    /\ argv \in ArgvSet
    /\ shards \in ShardSets
    /\ pc = "parse"
    /\ error = ""
    /\ files = <<>>
    /\ accessed = FALSE
    /\ trainset = <<>>
    /\ it = NoIter
    /\ delivered = <<>>
    /\ epoch = 0
    /\ batch = <<>>
    /\ loss = Unbound
    /\ gradAcc = 0
    /\ opLog = <<>>
    /\ stepLog = <<>>
    /\ printed = <<>>

Abort(e) == pc' = "aborted" /\ error' = e

\* ---------------------------------------------------- configuration loader
\* parser.parse_args(): type=int conversion only; a value that does not
\* convert exits the process, any integer is accepted.
ParseArgs ==
    /\ pc = "parse"
    /\ IF argv.ok THEN pc' = "glob" /\ error' = error
                  ELSE Abort("ConfigError")
    /\ UNCHANGED <<argv, shards, files, accessed, trainset, it, delivered,
                   epoch, batch, loss, gradAcc, opLog, stepLog, printed>>

\* glob(f"{dataroot}/imagenet-1k-train-00???-of-00257.arrow"): the matching
\* files in the order the directory enumeration gives them.
Glob ==
    /\ pc = "glob"
    /\ \E p \in Perms(Len(shards)) : files' = [i \in 1..Len(shards) |-> p[i]]
    /\ accessed' = TRUE
    /\ pc' = "concat"
    /\ UNCHANGED <<argv, shards, error, trainset, it, delivered,
                   epoch, batch, loss, gradAcc, opLog, stepLog, printed>>

\* concatenate_datasets([...]): an empty list is a ValueError.
Concat ==
    /\ pc = "concat"
    /\ IF files = <<>>
       THEN Abort("ValueError") /\ trainset' = trainset
       ELSE pc' = "loader" /\ error' = error /\ trainset' = ConcatenateDatasets(files)
    /\ UNCHANGED <<argv, shards, files, accessed, it, delivered,
                   epoch, batch, loss, gradAcc, opLog, stepLog, printed>>

\* torch.utils.data.DataLoader(trainset, batch_size=...): a batch size that
\* is not positive is rejected here, by the loader's constructor.
MakeLoader ==
    /\ pc = "loader"
    /\ IF argv.batch_size <= 0 THEN Abort("ValueError")
                               ELSE pc' = "model" /\ error' = error
    /\ UNCHANGED <<argv, shards, files, accessed, trainset, it, delivered,
                   epoch, batch, loss, gradAcc, opLog, stepLog, printed>>

\* models.resnet50(...).to(device), Adam, CrossEntropyLoss; then the head of
\* `for epoch in range(num_epochs)`.
MakeModel ==
    /\ pc = "model"
    /\ \/ pc' = (IF argv.num_epochs > 0 THEN "iter" ELSE "done") /\ error' = error
       \/ Abort("DeviceError")
    /\ UNCHANGED <<argv, shards, files, accessed, trainset, it, delivered,
                   epoch, batch, loss, gradAcc, opLog, stepLog, printed>>

\* --------------------------------------------------- training loop driver
LoopVarsUnchanged == UNCHANGED <<argv, shards, files, accessed, trainset>>

\* `for inputs, labels in trainloader`: a fresh iterator for the pass.
IterStart ==
    /\ pc = "iter"
    /\ it' = IterInit
    /\ delivered' = <<>>
    /\ pc' = "fetch"
    /\ LoopVarsUnchanged
    /\ UNCHANGED <<error, epoch, batch, loss, gradAcc, opLog, stepLog, printed>>

\* a background worker finishes a batch, concurrently with the main thread.
WorkerDone ==
    /\ it.open
    /\ pc # "aborted"
    /\ \E k \in it.inflight :
         /\ CanComplete(k)
         /\ it' = [it EXCEPT !.inflight = it.inflight \ {k},
                             !.ready = it.ready \cup {k}]
    /\ UNCHANGED <<argv, shards, pc, error, files, accessed, trainset, delivered,
                   epoch, batch, loss, gradAcc, opLog, stepLog, printed>>

\* the loop takes the next batch; it blocks while none is deliverable.
Fetch ==
    /\ pc = "fetch"
    /\ \E k \in Deliverable(it) :
         /\ batch' = LoaderBatches[k + 1]
         /\ delivered' = Append(delivered, LoaderBatches[k + 1])
         /\ it' = AfterNext(it, k)
    /\ opLog' = <<>>
    /\ pc' = "zero_grad"
    /\ LoopVarsUnchanged
    /\ UNCHANGED <<error, epoch, loss, gradAcc, stepLog, printed>>

\* the pass is over (StopIteration): the batch loop ends.
FetchStop ==
    /\ pc = "fetch"
    /\ Exhausted(it)
    /\ it' = NoIter
    /\ pc' = "report"
    /\ LoopVarsUnchanged
    /\ UNCHANGED <<error, delivered, epoch, batch, loss, gradAcc, opLog, stepLog, printed>>

ZeroGradSkipped ==
    /\ pc = "zero_grad"
    /\ opLog' = Append(opLog, "zero_grad")
    /\ pc' = "forward"
    /\ LoopVarsUnchanged
    /\ UNCHANGED <<error, it, delivered, epoch, batch, loss, gradAcc, stepLog, printed>>

\* optimizer.zero_grad()
ZeroGrad ==
    /\ pc = "zero_grad"
    /\ gradAcc' = 0
    /\ opLog' = Append(opLog, "zero_grad")
    /\ pc' = "forward"
    /\ LoopVarsUnchanged
    /\ UNCHANGED <<error, it, delivered, epoch, batch, loss, stepLog, printed>>

ComputeErrorSwallowed == pc' = "report" /\ error' = "ComputeError"

\* an exception in the loop body: nothing catches it, the run ends.
ComputeError == Abort("ComputeError")

\* outputs = model(inputs)
Forward ==
    /\ pc = "forward"
    /\ \/ pc' = "loss" /\ error' = error /\ opLog' = Append(opLog, "forward")
       \/ ComputeError /\ opLog' = opLog
    /\ LoopVarsUnchanged
    /\ UNCHANGED <<it, delivered, epoch, batch, loss, gradAcc, stepLog, printed>>

\* loss = loss_fn(outputs, labels)
Loss ==
    /\ pc = "loss"
    /\ \/ /\ \E v \in 0..MaxLoss : loss' = [bound |-> TRUE, value |-> v, epoch |-> epoch]
          /\ pc' = "backward" /\ error' = error
          /\ opLog' = Append(opLog, "loss")
       \/ ComputeError /\ loss' = loss /\ opLog' = opLog
    /\ LoopVarsUnchanged
    /\ UNCHANGED <<it, delivered, epoch, batch, gradAcc, stepLog, printed>>

\* loss.backward(): gradients are added to what .grad holds.
Backward ==
    /\ pc = "backward"
    /\ \/ /\ gradAcc' = gradAcc + 1
          /\ pc' = "step" /\ error' = error
          /\ opLog' = Append(opLog, "backward")
       \/ ComputeError /\ gradAcc' = gradAcc /\ opLog' = opLog
    /\ LoopVarsUnchanged
    /\ UNCHANGED <<it, delivered, epoch, batch, loss, stepLog, printed>>

\* optimizer.step()
Step ==
    /\ pc = "step"
    /\ opLog' = Append(opLog, "step")
    /\ stepLog' = Append(stepLog, [epoch |-> epoch, batch |-> batch,
                                   grads |-> gradAcc, ops |-> opLog',
                                   loss |-> loss.value])
    /\ pc' = "break"
    /\ LoopVarsUnchanged
    /\ UNCHANGED <<error, it, delivered, epoch, batch, loss, gradAcc, printed>>

BreakMissing ==
    /\ pc = "break"
    /\ pc' = "fetch"
    /\ LoopVarsUnchanged
    /\ UNCHANGED <<error, it, delivered, epoch, batch, loss, gradAcc, opLog,
                   stepLog, printed>>

\* break: the batch loop ends after the first batch; its iterator is dropped.
Break ==
    /\ pc = "break"
    /\ it' = NoIter
    /\ pc' = "report"
    /\ LoopVarsUnchanged
    /\ UNCHANGED <<error, delivered, epoch, batch, loss, gradAcc, opLog,
                   stepLog, printed>>

ProgressLineZeroBased ==
    [i |-> epoch, n |-> argv.num_epochs, loss |-> loss.value, from |-> loss.epoch]

\* f"Epoch {epoch+1}/{args.num_epochs}", f"Loss: {loss}"
ProgressLine ==
    [i |-> epoch + 1, n |-> argv.num_epochs, loss |-> loss.value, from |-> loss.epoch]

\* print(...) after the batch loop, then the next epoch.  Reading `loss`
\* when no batch ever assigned it raises UnboundLocalError.
Report ==
    /\ pc = "report"
    /\ IF loss.bound
       THEN /\ printed' = Append(printed, ProgressLine)
            /\ epoch' = epoch + 1
            /\ pc' = (IF epoch + 1 < argv.num_epochs THEN "iter" ELSE "done")
            /\ error' = error
       ELSE /\ Abort("UnboundLocalError")
            /\ UNCHANGED <<printed, epoch>>
    /\ LoopVarsUnchanged
    /\ UNCHANGED <<it, delivered, batch, loss, gradAcc, opLog, stepLog>>

Next ==
    \/ ParseArgs
    \/ Glob
    \/ Concat
    \/ MakeLoader
    \/ MakeModel
    \/ IterStart
    \/ WorkerDone
    \/ Fetch
    \/ FetchStop
    \/ ZeroGrad
    \/ Forward
    \/ Loss
    \/ Backward
    \/ Step
    \/ Break
    \/ Report

Spec == Init /\ [][Next]_vars

\* ------------------------------------------- one full pass over the loader
\* The DataLoader of main() iterated to exhaustion: `for b in trainloader`
\* with an empty body, over a dataset of up to MaxLen samples.
LoaderInit ==
    /\ argv \in [batch_size : 1..MaxBatch, num_epochs : {1},
                 num_workers : 0..MaxWorkers, ok : {TRUE}]
    /\ shards \in [1..1 -> 0..MaxLen]
    /\ files = <<1>>
    /\ trainset = ConcatenateDatasets(files)
    /\ accessed = TRUE
    /\ pc = "p_iter"
    /\ error = ""
    /\ it = NoIter
    /\ delivered = <<>>
    /\ epoch = 0
    /\ batch = <<>>
    /\ loss = Unbound
    /\ gradAcc = 0
    /\ opLog = <<>>
    /\ stepLog = <<>>
    /\ printed = <<>>

PassIter ==
    /\ pc = "p_iter"
    /\ it' = IterInit
    /\ pc' = "p_next"
    /\ UNCHANGED <<argv, shards, error, files, accessed, trainset, delivered,
                   epoch, batch, loss, gradAcc, opLog, stepLog, printed>>

PassNext ==
    /\ pc = "p_next"
    /\ \E k \in Deliverable(it) :
         /\ batch' = LoaderBatches[k + 1]
         /\ delivered' = Append(delivered, LoaderBatches[k + 1])
         /\ it' = AfterNext(it, k)
    /\ UNCHANGED <<argv, shards, pc, error, files, accessed, trainset,
                   epoch, loss, gradAcc, opLog, stepLog, printed>>

PassStop ==
    /\ pc = "p_next"
    /\ Exhausted(it)
    /\ it' = NoIter
    /\ pc' = "p_done"
    /\ UNCHANGED <<argv, shards, error, files, accessed, trainset, delivered,
                   epoch, batch, loss, gradAcc, opLog, stepLog, printed>>

LoaderNext ==
    \/ PassIter
    \/ WorkerDone
    \/ PassNext
    \/ PassStop

LoaderSpec == LoaderInit /\ [][LoaderNext]_vars

\* ================================================================== claims
CeilDiv(a, b) == (a + b - 1) \div b

RECURSIVE SumLens(_)
SumLens(s) == IF s = <<>> THEN 0 ELSE Head(s) + SumLens(Tail(s))

LoopStates == {"iter", "fetch", "zero_grad", "forward", "loss", "backward",
               "step", "break", "report"}

\* batch k (from 0) of a sequential pass over L samples in batches of B
ExpectedBatch(k, L, B) == [i \in 1..Min(B, L - k * B) |-> k * B + i - 1]

\* C1: a completed run has performed one optimizer step for every batch of
\* every epoch's pass: num_epochs * ceil(L / B) steps in total.
C1_StepPerBatchOfEveryPass ==
    pc = "done" =>
        Len(stepLog) = argv.num_epochs * CeilDiv(Len(trainset), argv.batch_size)

\* C2: the progress lines are 'Epoch 1/N', 'Epoch 2/N', ... in this order, a
\* completed run has printed exactly N of them, line i is printed after the
\* batch processing of epoch i and before any batch of epoch i+1 is processed.
C2_ProgressLines ==
    /\ \A i \in 1..Len(printed) :
         /\ printed[i].i = i
         /\ printed[i].n = argv.num_epochs
         /\ \E j \in 1..Len(stepLog) : stepLog[j].epoch = i - 1
    /\ \A j \in 1..Len(stepLog) : stepLog[j].epoch <= Len(printed)
    /\ pc \in LoopStates => Len(printed) = epoch
    /\ pc = "done" => Len(printed) = argv.num_epochs

C2_Witness ==
    pc = "done" /\ argv.num_epochs >= 2 /\ Len(printed) = argv.num_epochs

\* C3: whenever an epoch's progress line is due, `loss` holds a value that was
\* computed on a batch of that same epoch, also when the pass yielded no batch.
C3_ReportedLossIsOfThisEpoch ==
    pc = "report" => (loss.bound /\ loss.epoch = epoch)

\* C4: a run with a batch size <= 0 ends in the configuration loader, before
\* any dataset access: the data root is never touched, and the only error such
\* a run ends with is the ConfigError.
C4_BadBatchSizeRejectedBeforeData ==
    argv.batch_size <= 0 =>
        /\ ~accessed
        /\ pc = "aborted" => error = "ConfigError"

\* C5: a full pass yields ceil(L/B) batches, all of B samples except the last,
\* which has L - B*(ceil(L/B)-1); 257 samples in batches of 64 give sizes
\* 64, 64, 64, 64, 1.
C5_PassBatchSizes ==
    /\ pc = "p_done" =>
         LET L == Len(trainset)
             B == argv.batch_size
             n == CeilDiv(L, B)
         IN /\ Len(delivered) = n
            /\ \A k \in 1..n :
                 Len(delivered[k]) = (IF k < n THEN B ELSE L - B * (n - 1))
    /\ [k \in 1..Len(Batches(257, 64)) |-> Len(Batches(257, 64)[k])]
         = <<64, 64, 64, 64, 1>>

C5_Witness ==
    /\ pc = "p_done"
    /\ Len(trainset) % argv.batch_size # 0
    /\ Len(delivered) >= 2

\* C6: the assembled dataset is the concatenation of the shards in filename
\* order, whatever order glob returned them in, and its length is the sum of
\* the shard lengths.
C6_ConcatInFilenameOrder ==
    pc = "loader" =>
        /\ trainset = ConcatenateDatasets([i \in 1..Len(shards) |-> i])
        /\ Len(trainset) = SumLens(shards)

\* C7: once forward, loss or backward has failed in epoch e the run is over:
\* the lines printed are those of the epochs before e, and no optimizer step
\* and no progress line follows.
C7_AbortOnComputeError ==
    /\ [](error = "ComputeError" =>
            /\ pc = "aborted"
            /\ Len(printed) = epoch
            /\ \A i \in 1..Len(printed) : printed[i].i = i
            /\ \A j \in 1..Len(stepLog) : stepLog[j].epoch < epoch)
    /\ [][error = "ComputeError" => (printed' = printed /\ stepLog' = stepLog)]_vars

C7_Witness ==
    error = "ComputeError" /\ epoch >= 1 /\ Len(printed) = epoch

\* C8: with any number of workers and any order of worker completion, the
\* loop receives batch 0, batch 1, ... in this order, batch k holding the
\* sample indices k*B .. k*B+B-1 (cut at the dataset's end).
C8_InOrderDelivery ==
    \A k \in 1..Len(delivered) :
        delivered[k] = ExpectedBatch(k - 1, Len(trainset), argv.batch_size)

C8_Witness ==
    /\ argv.num_workers > 1
    /\ Len(delivered) >= 1
    /\ it.open
    /\ it.rcvdIdx \notin it.ready
    /\ \E k \in it.ready : k > it.rcvdIdx

\* C9: each epoch performs exactly one optimizer step, on the batch of sample
\* indices 0..min(B,L)-1, however many batches a pass has; a completed run
\* over a non-empty loader has performed exactly num_epochs steps.
C9_OneStepPerEpochOnFirstBatch ==
    /\ \A j \in 1..Len(stepLog) :
         /\ stepLog[j].epoch = j - 1
         /\ stepLog[j].batch = ExpectedBatch(0, Len(trainset), argv.batch_size)
    /\ (pc = "done" /\ Len(trainset) > 0) => Len(stepLog) = argv.num_epochs

C9_Witness ==
    pc = "done" /\ argv.num_epochs >= 2 /\ NumBatches >= 2

\* C10: every optimizer step is the fifth of zero_grad, forward, loss,
\* backward, step on its batch, each made once, and it applies the gradients
\* of exactly one backward pass.
C10_FiveStepsInOrder ==
    /\ \A j \in 1..Len(stepLog) :
         /\ stepLog[j].ops = <<"zero_grad", "forward", "loss", "backward", "step">>
         /\ stepLog[j].grads = 1
    /\ pc = "step" => (gradAcc = 1 /\ opLog = <<"zero_grad", "forward", "loss", "backward">>)

C10_Witness ==
    Len(stepLog) >= 2 /\ pc = "done"

====
